---- MODULE Spec2Model ----
(***************************************************************************)
(* Model of scripts/query_api_example.py: the DBNotebook Query API demo    *)
(* client.  The script is single threaded; every HTTP call blocks.  The    *)
(* model splits each function at its network calls: one action issues the  *)
(* request, the next consumes the server's answer.                         *)
(*                                                                         *)
(* Python Optional values are modelled as sequences: <<>> is None and      *)
(* <<v>> is the value v.                                                   *)
(***************************************************************************)
EXTENDS Integers, Sequences, FiniteSets, TLC

\* ---- bounds of the model -------------------------------------------------
MaxNotebooks == 2
MaxTurns == 3

\* ---- program constants ---------------------------------------------------
HTTP_OK == 200
DefaultMaxSources == 6
DefaultMaxHistory == 5
ConvMaxSources == 2

None == <<>>
Some(v) == <<v>>

\* ---- input domains -------------------------------------------------------
ListedIds == {"a", "b"}
ConfiguredIds == {"a", "c"}
Statuses == {200, 500}
UUIDs == {"u1", "u2"}
ModelArgs == {None, Some(""), Some("m")}
QueryArgs == {None, Some(""), Some("q")}
TopKArgs == {None, Some(0), Some(10)}
MaxSourcesArgs == {DefaultMaxSources, 3}
MaxHistoryArgs == {DefaultMaxHistory, 2}
TurnTexts == {"t1", "t2"}

DemoStatelessQuery == "What are the key policies mentioned in the documents?"
DemoConvQueries == << "What is the work from home policy?",
                      "What are the eligibility requirements for it?",
                      "Are there any exceptions to this policy?" >>

RECURSIVE SeqsUpTo(_, _)
SeqsUpTo(S, n) ==
    IF n = 0 THEN { <<>> }
    ELSE LET prev == SeqsUpTo(S, n - 1)
         IN  prev \cup { Append(s, x) : s \in prev, x \in S }

Notebook(id) == [id |-> id]
Listings == SeqsUpTo({ Notebook(id) : id \in ListedIds }, MaxNotebooks)
QueryLists == SeqsUpTo(TurnTexts, MaxTurns)

\* ---- Python truthiness ---------------------------------------------------
TruthyStr(o) == o # None /\ o[1] # ""
TruthyInt(o) == o # None /\ o[1] # 0

\* ---- dict helpers --------------------------------------------------------
SetKey(d, k, v) == [x \in (DOMAIN d) \cup {k} |-> IF x = k THEN v ELSE d[x]]
HasKey(d, k) == k \in DOMAIN d

VARIABLES
    args,         \* argparse namespace of main
    pc,           \* position of the process
    caller,       \* who called the running function: "main" or "direct"
    site,         \* call site of query_stateless in main: "custom" or "demo"
    notebooks,    \* main: result of list_notebooks()
    notebook_id,  \* main: the resolved notebook id
    qs,           \* query_stateless: its arguments
    qs_result,    \* query_stateless: its return value (None or a result)
    qc,           \* query_conversational: its arguments
    session_id,   \* query_conversational: local session_id
    turn,         \* query_conversational: loop index i (1-based)
    generated,    \* every value uuid.uuid4() returned, in order
    inflight,     \* requests issued and not yet answered
    sent,         \* every request issued, in order
    recv,         \* status code of every response received, in order
    log           \* what was printed, abstracted to events

vars == << args, pc, caller, site, notebooks, notebook_id, qs, qs_result, qc,
           session_id, turn, generated, inflight, sent, recv, log >>

Last(s) == s[Len(s)]

Event(ev, id, status) == [ev |-> ev, id |-> id, status |-> status]
Emit(l, ev) == Append(l, ev)

GetRequest == [method |-> "GET", path |-> "/api/query/notebooks", payload |-> << >>]
PostRequest(payload) == [method |-> "POST", path |-> "/api/query", payload |-> payload]

IsPost(r) == r.method = "POST" /\ r.path = "/api/query"
Posts == SelectSeq(sent, IsPost)

\* requests.get / requests.post: the request goes on the wire and the caller blocks
Issue(req) ==
    /\ inflight' = Append(inflight, req)
    /\ sent' = Append(sent, req)

\* the blocked call returns a response with this status
Receive(status) ==
    /\ inflight # <<>>
    /\ inflight' = Tail(inflight)
    /\ recv' = Append(recv, status)

\* ---- parse_args ----------------------------------------------------------
ArgSpace ==
    [ list_models : BOOLEAN, list_notebooks : BOOLEAN, notebook : ConfiguredIds,
      query : QueryArgs, no_demo : BOOLEAN, model : ModelArgs, top_k : TopKArgs,
      max_sources : MaxSourcesArgs, no_reranker : BOOLEAN,
      include_raptor : BOOLEAN, max_history : {DefaultMaxHistory} ]

DefaultArgs ==
    [ list_models |-> FALSE, list_notebooks |-> FALSE, notebook |-> "a",
      query |-> None, no_demo |-> FALSE, model |-> None, top_k |-> None,
      max_sources |-> DefaultMaxSources, no_reranker |-> FALSE,
      include_raptor |-> FALSE, max_history |-> DefaultMaxHistory ]

NoFrame == [notebook_id |-> ""]

Init ==
    /\ args \in ArgSpace
    /\ pc = "main"
    /\ caller = "main"
    /\ site = ""
    /\ notebooks = <<>>
    /\ notebook_id = ""
    /\ qs = NoFrame
    /\ qs_result = None
    /\ qc = NoFrame
    /\ session_id = None
    /\ turn = 0
    /\ generated = <<>>
    /\ inflight = <<>>
    /\ sent = <<>>
    /\ recv = <<>>
    /\ log = <<>>

\* ---- main: the two list-only modes and the header -------------------------
MainListModels ==
    /\ pc = "main"
    /\ args.list_models
    /\ log' = Emit(log, Event("Models", "", 0))
    /\ pc' = "done"
    /\ UNCHANGED << args, caller, site, notebooks, notebook_id, qs, qs_result, qc,
                    session_id, turn, generated, inflight, sent, recv >>

\* main reaches a call of list_notebooks(), which issues its GET
ListNotebooksRequest ==
    /\ pc = "main"
    /\ ~args.list_models
    /\ Issue(GetRequest)
    /\ log' = Emit(log, Event("Listing", "", 0))
    /\ pc' = "ln_wait"
    /\ UNCHANGED << args, caller, site, notebooks, notebook_id, qs, qs_result, qc,
                    session_id, turn, generated, recv >>

\* list_notebooks() returns [] on a non-200 status, the listed notebooks otherwise;
\* with --list-notebooks main returns right after it
ListNotebooksResponse ==
    /\ pc = "ln_wait"
    /\ \E status \in Statuses, body \in Listings :
         /\ Receive(status)
         /\ IF status # HTTP_OK
            THEN /\ notebooks' = <<>>
                 /\ log' = Emit(log, Event("Error", "", status))
            ELSE /\ notebooks' = body
                 /\ log' = Emit(log, Event("Found", "", Len(body)))
    /\ pc' = IF args.list_notebooks THEN "done" ELSE "resolve"
    /\ UNCHANGED << args, caller, site, notebook_id, qs, qs_result, qc,
                    session_id, turn, generated, sent >>

NotebookIdsOf(nbs) == { nbs[i].id : i \in DOMAIN nbs }

\* variant: the empty-listing branch prints its message and does not return
MainResolve_NoEmptyCheck ==
    /\ pc = "resolve"
    /\ IF notebooks = <<>>
       THEN /\ log' = Emit(log, Event("NoNotebooks", "", 0))
            /\ notebook_id' = args.notebook
            /\ pc' = "custom"
       ELSE IF args.notebook \notin NotebookIdsOf(notebooks)
       THEN /\ notebook_id' = notebooks[1].id
            /\ log' = Emit(log, Event("Substituted", notebooks[1].id, 0))
            /\ pc' = "custom"
       ELSE /\ notebook_id' = args.notebook
            /\ log' = log
            /\ pc' = "custom"
    /\ UNCHANGED << args, caller, site, notebooks, qs, qs_result, qc,
                    session_id, turn, generated, inflight, sent, recv >>

\* variant: the fallback is taken without printing it
MainResolve_Silent ==
    /\ pc = "resolve"
    /\ IF notebooks = <<>>
       THEN /\ log' = Emit(log, Event("NoNotebooks", "", 0))
            /\ notebook_id' = args.notebook
            /\ pc' = "done"
       ELSE IF args.notebook \notin NotebookIdsOf(notebooks)
       THEN /\ notebook_id' = notebooks[1].id
            /\ log' = log
            /\ pc' = "custom"
       ELSE /\ notebook_id' = args.notebook
            /\ log' = log
            /\ pc' = "custom"
    /\ UNCHANGED << args, caller, site, notebooks, qs, qs_result, qc,
                    session_id, turn, generated, inflight, sent, recv >>

\* variant: the configured id is kept although it is not listed
MainResolve_NoFallback ==
    /\ pc = "resolve"
    /\ IF notebooks = <<>>
       THEN /\ log' = Emit(log, Event("NoNotebooks", "", 0))
            /\ notebook_id' = args.notebook
            /\ pc' = "done"
       ELSE /\ notebook_id' = args.notebook
            /\ log' = log
            /\ pc' = "custom"
    /\ UNCHANGED << args, caller, site, notebooks, qs, qs_result, qc,
                    session_id, turn, generated, inflight, sent, recv >>

\* main: "Determine notebook ID"
MainResolve ==
    /\ pc = "resolve"
    /\ IF notebooks = <<>>
       THEN /\ log' = Emit(log, Event("NoNotebooks", "", 0))
            /\ notebook_id' = args.notebook
            /\ pc' = "done"
       ELSE IF args.notebook \notin NotebookIdsOf(notebooks)
       THEN /\ notebook_id' = notebooks[1].id
            /\ log' = Emit(log, Event("Substituted", notebooks[1].id, 0))
            /\ pc' = "custom"
       ELSE /\ notebook_id' = args.notebook
            /\ log' = log
            /\ pc' = "custom"
    /\ UNCHANGED << args, caller, site, notebooks, qs, qs_result, qc,
                    session_id, turn, generated, inflight, sent, recv >>

\* ---- query_stateless -----------------------------------------------------
StatelessArgs(nb, query) ==
    [ notebook_id |-> nb, query |-> query, model |-> args.model,
      top_k |-> args.top_k, max_sources |-> args.max_sources,
      reranker_enabled |-> ~args.no_reranker,
      skip_raptor |-> ~args.include_raptor ]

\* variant: every optional field is sent, defaults included
StatelessPayload_SendAll(a) ==
    LET p0 == [ notebook_id |-> a.notebook_id, query |-> a.query,
                include_sources |-> TRUE, max_sources |-> a.max_sources,
                reranker_enabled |-> a.reranker_enabled,
                skip_raptor |-> a.skip_raptor ]
        p1 == IF TruthyStr(a.model) THEN SetKey(p0, "model", a.model[1]) ELSE p0
        p2 == IF TruthyInt(a.top_k) THEN SetKey(p1, "top_k", a.top_k[1]) ELSE p1
    IN  p2

\* variant: top_k is forgotten when the reranker is disabled
StatelessPayload_DropTopK(a) ==
    LET p0 == [ notebook_id |-> a.notebook_id, query |-> a.query,
                include_sources |-> TRUE, max_sources |-> a.max_sources ]
        p1 == IF TruthyStr(a.model) THEN SetKey(p0, "model", a.model[1]) ELSE p0
        p2 == IF ~a.reranker_enabled THEN SetKey(p1, "reranker_enabled", FALSE)
              ELSE IF TruthyInt(a.top_k) THEN SetKey(p1, "top_k", a.top_k[1])
              ELSE p1
        p3 == IF ~a.skip_raptor THEN SetKey(p2, "skip_raptor", FALSE) ELSE p2
    IN  p3

\* the payload dict query_stateless builds
StatelessPayload(a) ==
    LET p0 == [ notebook_id |-> a.notebook_id, query |-> a.query,
                include_sources |-> TRUE, max_sources |-> a.max_sources ]
        p1 == IF TruthyStr(a.model) THEN SetKey(p0, "model", a.model[1]) ELSE p0
        p2 == IF TruthyInt(a.top_k) THEN SetKey(p1, "top_k", a.top_k[1]) ELSE p1
        p3 == IF ~a.reranker_enabled THEN SetKey(p2, "reranker_enabled", FALSE) ELSE p2
        p4 == IF ~a.skip_raptor THEN SetKey(p3, "skip_raptor", FALSE) ELSE p3
    IN  p4

\* main: "If custom query provided, run it": the call of query_stateless
MainCustomQuery ==
    /\ pc = "custom"
    /\ IF TruthyStr(args.query)
       THEN /\ qs' = StatelessArgs(notebook_id, args.query[1])
            /\ site' = "custom"
            /\ pc' = "qs_post"
       ELSE /\ UNCHANGED << qs, site >>
            /\ pc' = "demo"
    /\ UNCHANGED << args, caller, notebooks, notebook_id, qs_result, qc,
                    session_id, turn, generated, inflight, sent, recv, log >>

\* query_stateless up to and including requests.post
QS_Post ==
    /\ pc = "qs_post"
    /\ Issue(PostRequest(StatelessPayload(qs)))
    /\ log' = Emit(log, Event("Stateless", qs.notebook_id, 0))
    /\ pc' = "qs_wait"
    /\ UNCHANGED << args, caller, site, notebooks, notebook_id, qs, qs_result, qc,
                    session_id, turn, generated, recv >>

\* variant: a non-200 status ends the whole program
QS_Response_Abort ==
    /\ pc = "qs_wait"
    /\ \E status \in Statuses :
         /\ Receive(status)
         /\ IF status # HTTP_OK
            THEN /\ log' = Emit(log, Event("Error", "", status))
                 /\ qs_result' = None
                 /\ pc' = "done"
            ELSE /\ log' = Emit(log, Event("Response", "", status))
                 /\ qs_result' = Some("result")
                 /\ pc' = IF site = "custom" THEN "after_custom" ELSE "conv_call"
    /\ UNCHANGED << args, caller, site, notebooks, notebook_id, qs, qc,
                    session_id, turn, generated, sent >>

\* query_stateless after requests.post returned, up to its return
QS_Response ==
    /\ pc = "qs_wait"
    /\ \E status \in Statuses :
         /\ Receive(status)
         /\ IF status # HTTP_OK
            THEN /\ log' = Emit(log, Event("Error", "", status))
                 /\ qs_result' = None
            ELSE /\ log' = Emit(log, Event("Response", "", status))
                 /\ qs_result' = Some("result")
    /\ pc' = IF site = "custom" THEN "after_custom" ELSE "conv_call"
    /\ UNCHANGED << args, caller, site, notebooks, notebook_id, qs, qc,
                    session_id, turn, generated, sent >>

\* main: after the custom query, "if args.no_demo: ... return"
MainAfterCustom ==
    /\ pc = "after_custom"
    /\ IF args.no_demo
       THEN /\ log' = Emit(log, Event("QueryComplete", "", 0))
            /\ pc' = "done"
       ELSE /\ log' = log
            /\ pc' = "demo"
    /\ UNCHANGED << args, caller, site, notebooks, notebook_id, qs, qs_result, qc,
                    session_id, turn, generated, inflight, sent, recv >>

\* variant: the demo runs whether or not --no-demo was given
MainDemo_Always ==
    /\ pc = "demo"
    /\ qs' = StatelessArgs(notebook_id, DemoStatelessQuery)
    /\ site' = "demo"
    /\ pc' = "qs_post"
    /\ UNCHANGED << args, caller, notebooks, notebook_id, qs_result, qc,
                    session_id, turn, generated, inflight, sent, recv, log >>

\* main: "Run demo queries unless --no-demo": the demo call of query_stateless
MainDemo ==
    /\ pc = "demo"
    /\ IF ~args.no_demo
       THEN /\ qs' = StatelessArgs(notebook_id, DemoStatelessQuery)
            /\ site' = "demo"
            /\ pc' = "qs_post"
            /\ log' = log
       ELSE /\ UNCHANGED << qs, site >>
            /\ log' = Emit(log, Event("ExampleComplete", "", 0))
            /\ pc' = "done"
    /\ UNCHANGED << args, caller, notebooks, notebook_id, qs_result, qc,
                    session_id, turn, generated, inflight, sent, recv >>

\* ---- query_conversational ------------------------------------------------
ConvArgs(nb, queries, model, max_history) ==
    [ notebook_id |-> nb, queries |-> queries, model |-> model,
      max_history |-> max_history ]

\* the payload dict of one turn
ConvPayload(a, query, sid) ==
    LET p0 == [ notebook_id |-> a.notebook_id, query |-> query, session_id |-> sid,
                include_sources |-> TRUE, max_sources |-> ConvMaxSources,
                max_history |-> a.max_history ]
    IN  IF TruthyStr(a.model) THEN SetKey(p0, "model", a.model[1]) ELSE p0

\* main: the demo call of query_conversational
MainCallConversational ==
    /\ pc = "conv_call"
    /\ qc' = ConvArgs(notebook_id, DemoConvQueries, args.model, args.max_history)
    /\ pc' = "qc_entry"
    /\ UNCHANGED << args, caller, site, notebooks, notebook_id, qs, qs_result,
                    session_id, turn, generated, inflight, sent, recv, log >>

\* query_conversational before its loop: session_id = str(uuid.uuid4())
QC_Begin ==
    /\ pc = "qc_entry"
    /\ \E u \in UUIDs :
         /\ session_id' = Some(u)
         /\ generated' = Append(generated, u)
         /\ log' = Emit(log, Event("Session", u, 0))
    /\ turn' = 1
    /\ pc' = "qc_loop"
    /\ UNCHANGED << args, caller, site, notebooks, notebook_id, qs, qs_result, qc,
                    inflight, sent, recv >>

\* variant: uuid.uuid4() is called inside the loop
QC_Post_FreshSession ==
    /\ pc = "qc_loop"
    /\ turn <= Len(qc.queries)
    /\ \E u \in UUIDs :
         /\ session_id' = Some(u)
         /\ generated' = Append(generated, u)
         /\ Issue(PostRequest(ConvPayload(qc, qc.queries[turn], u)))
    /\ log' = Emit(log, Event("Turn", qc.queries[turn], turn))
    /\ pc' = "qc_wait"
    /\ UNCHANGED << args, caller, site, notebooks, notebook_id, qs, qs_result, qc,
                    turn, recv >>

\* variant: the request is fired and the loop goes on without the response
QC_Post_NoWait ==
    /\ pc = "qc_loop"
    /\ turn <= Len(qc.queries)
    /\ Issue(PostRequest(ConvPayload(qc, qc.queries[turn], session_id[1])))
    /\ log' = Emit(log, Event("Turn", qc.queries[turn], turn))
    /\ turn' = turn + 1
    /\ pc' = "qc_loop"
    /\ UNCHANGED << args, caller, site, notebooks, notebook_id, qs, qs_result, qc,
                    session_id, generated, recv >>

\* one loop iteration up to and including requests.post
QC_Post ==
    /\ pc = "qc_loop"
    /\ turn <= Len(qc.queries)
    /\ Issue(PostRequest(ConvPayload(qc, qc.queries[turn], session_id[1])))
    /\ log' = Emit(log, Event("Turn", qc.queries[turn], turn))
    /\ pc' = "qc_wait"
    /\ UNCHANGED << args, caller, site, notebooks, notebook_id, qs, qs_result, qc,
                    session_id, turn, generated, recv >>

\* variant: a non-200 status breaks out of the loop
QC_Response_Break ==
    /\ pc = "qc_wait"
    /\ \E status \in Statuses :
         /\ Receive(status)
         /\ IF status # HTTP_OK
            THEN /\ log' = Emit(log, Event("Error", "", status))
                 /\ turn' = Len(qc.queries) + 1
            ELSE /\ log' = Emit(log, Event("Response", "", status))
                 /\ turn' = turn + 1
    /\ pc' = "qc_loop"
    /\ UNCHANGED << args, caller, site, notebooks, notebook_id, qs, qs_result, qc,
                    session_id, generated, sent >>

\* the rest of the iteration: a non-200 status is printed and the loop continues
QC_Response ==
    /\ pc = "qc_wait"
    /\ \E status \in Statuses :
         /\ Receive(status)
         /\ IF status # HTTP_OK
            THEN log' = Emit(log, Event("Error", "", status))
            ELSE log' = Emit(log, Event("Response", "", status))
    /\ turn' = turn + 1
    /\ pc' = "qc_loop"
    /\ UNCHANGED << args, caller, site, notebooks, notebook_id, qs, qs_result, qc,
                    session_id, generated, sent >>

\* the loop is exhausted: query_conversational returns
QC_Return ==
    /\ pc = "qc_loop"
    /\ turn > Len(qc.queries)
    /\ pc' = IF caller = "main" THEN "finish" ELSE "done"
    /\ UNCHANGED << args, caller, site, notebooks, notebook_id, qs, qs_result, qc,
                    session_id, turn, generated, inflight, sent, recv, log >>

\* main: "Example Complete!"
MainFinish ==
    /\ pc = "finish"
    /\ log' = Emit(log, Event("ExampleComplete", "", 0))
    /\ pc' = "done"
    /\ UNCHANGED << args, caller, site, notebooks, notebook_id, qs, qs_result, qc,
                    session_id, turn, generated, inflight, sent, recv >>

\* requests raises (connection refused, timeout, ...): nothing catches it
TransportError ==
    /\ pc \in {"ln_wait", "qs_wait", "qc_wait"}
    /\ inflight # <<>>
    /\ inflight' = Tail(inflight)
    /\ pc' = "crashed"
    /\ UNCHANGED << args, caller, site, notebooks, notebook_id, qs, qs_result, qc,
                    session_id, turn, generated, sent, recv, log >>

Next ==
    \/ MainListModels
    \/ ListNotebooksRequest
    \/ ListNotebooksResponse
    \/ MainResolve
    \/ MainCustomQuery
    \/ QS_Post
    \/ QS_Response
    \/ MainAfterCustom
    \/ MainDemo
    \/ MainCallConversational
    \/ QC_Begin
    \/ QC_Post
    \/ QC_Response
    \/ QC_Return
    \/ MainFinish
    \/ TransportError

Spec == Init /\ [][Next]_vars

\* ---- query_conversational called on its own -------------------------------
InitConv ==
    /\ args = DefaultArgs
    /\ pc = "qc_entry"
    /\ caller = "direct"
    /\ site = ""
    /\ notebooks = <<>>
    /\ notebook_id = ""
    /\ qs = NoFrame
    /\ qs_result = None
    /\ qc \in { ConvArgs(nb, qq, m, h) :
                  nb \in ListedIds, qq \in QueryLists, m \in ModelArgs,
                  h \in MaxHistoryArgs }
    /\ session_id = None
    /\ turn = 0
    /\ generated = <<>>
    /\ inflight = <<>>
    /\ sent = <<>>
    /\ recv = <<>>
    /\ log = <<>>

NextConv ==
    \/ QC_Begin
    \/ QC_Post
    \/ QC_Response
    \/ QC_Return
    \/ TransportError

SpecConv == InitConv /\ [][NextConv]_vars

TypeOK ==
    /\ pc \in {"main", "ln_wait", "resolve", "custom", "qs_post", "qs_wait",
               "after_custom", "demo", "conv_call", "qc_entry", "qc_loop",
               "qc_wait", "finish", "done", "crashed"}
    /\ Len(inflight) <= 1

\* ---- vocabulary of the properties -----------------------------------------
IsStateless(r) == IsPost(r) /\ ~HasKey(r.payload, "session_id")
IsConversational(r) == IsPost(r) /\ HasKey(r.payload, "session_id")
StatelessPosts == SelectSeq(sent, IsStateless)
ConvPosts == SelectSeq(sent, IsConversational)
QueriesOf(s) == [i \in 1..Len(s) |-> s[i].payload["query"]]
IsErrorEvent(e) == e.ev = "Error"
IsSubstEvent(e) == e.ev = "Substituted"
NotOK(st) == st # HTTP_OK
QueryMode == ~args.list_models /\ ~args.list_notebooks
CustomGiven == TruthyStr(args.query)
CustomPart == IF CustomGiven THEN << args.query[1] >> ELSE << >>
DemoPart == << DemoStatelessQuery >> \o DemoConvQueries

C2_OneSessionId ==
    /\ Len(generated) <= 1
    /\ pc # "qc_entry" => Len(generated) = 1
    /\ \A i \in DOMAIN sent :
         /\ Len(generated) = 1
         /\ IsPost(sent[i])
         /\ HasKey(sent[i].payload, "session_id")
         /\ sent[i].payload["session_id"] = generated[1]
    /\ pc = "done" => Len(sent) = Len(qc.queries)

C2_Witness ==
    /\ pc = "done"
    /\ Len(qc.queries) = 3
    /\ Len(sent) = 3
    /\ \A i \in 1..3 : sent[i].payload["session_id"] = generated[1]

\* C3: turns are strictly sequential and in list order: at most one request is
\* outstanding, and a request is issued only when every earlier request of the
\* run has been answered.
C3_StrictlySequential ==
    /\ Len(inflight) <= 1
    /\ Len(sent) = Len(recv) + Len(inflight) + (IF pc = "crashed" THEN 1 ELSE 0)
    /\ Len(sent) <= Len(qc.queries)
    /\ \A i \in DOMAIN sent : sent[i].payload["query"] = qc.queries[i]

C3_Witness ==
    /\ pc = "qc_wait"
    /\ turn = 2
    /\ recv = << 500 >>
    /\ Len(sent) = 2
    /\ Len(inflight) = 1

\* C6: a turn answered with a non-200 status is logged and skipped, the loop
\* goes on: when the run returns, every query of the list has been issued
\* exactly once, in list order, whichever turns failed.
C6_FailedTurnSkipped ==
    /\ Len(SelectSeq(log, IsErrorEvent)) = Len(SelectSeq(recv, NotOK))
    /\ pc \in {"qc_loop", "qc_wait"} => Len(recv) = turn - 1
    /\ pc = "done" =>
         /\ Len(recv) = Len(qc.queries)
         /\ QueriesOf(sent) = qc.queries

C6_Witness ==
    /\ pc = "done"
    /\ Len(qc.queries) = 3
    /\ recv = << 500, 200, 500 >>
    /\ Len(sent) = 3

\* C4: when the listing main obtained is empty (zero notebooks listed, or a
\* non-200 status), no POST /api/query is ever issued and main ends normally
\* after its message, whatever the flags.
C4_EmptyListingNoQuery ==
    (recv # <<>> /\ notebooks = <<>>) =>
        /\ Len(sent) = 1
        /\ sent[1] = GetRequest
        /\ pc \in {"resolve", "done"}
        /\ (pc = "done" /\ ~args.list_notebooks) => Last(log).ev = "NoNotebooks"

C4_Witness ==
    /\ pc = "done"
    /\ recv = << 500 >>
    /\ notebooks = <<>>
    /\ QueryMode
    /\ CustomGiven
    /\ ~args.no_demo
    /\ Last(log).ev = "NoNotebooks"

\* C5: with a non-empty listing, a configured id that is not listed is replaced
\* by the first listed id for every query and the replacement is logged; a
\* configured id that is listed is used as it is and nothing is logged.
C5_FallbackToFirstListed ==
    (notebooks # <<>> /\ ~args.list_notebooks /\ pc # "resolve") =>
        LET used == IF args.notebook \in NotebookIdsOf(notebooks)
                    THEN args.notebook ELSE notebooks[1].id
        IN  /\ notebook_id = used
            /\ \A i \in DOMAIN Posts : Posts[i].payload["notebook_id"] = used
            /\ SelectSeq(log, IsSubstEvent) =
                 IF args.notebook \in NotebookIdsOf(notebooks)
                 THEN << >>
                 ELSE << Event("Substituted", notebooks[1].id, 0) >>

C5_Witness ==
    /\ pc = "done"
    /\ args.notebook = "c"
    /\ notebooks # <<>>
    /\ notebooks[1].id = "b"
    /\ Len(Posts) = 5
    /\ \A i \in 1..5 : Posts[i].payload["notebook_id"] = "b"

\* C10: every POST /api/query comes after a completed listing request and
\* carries the id of a listed notebook, the same id for all POSTs of the run.
C10_QueriesUseListedNotebook ==
    \A i \in DOMAIN sent :
        IsPost(sent[i]) =>
            /\ i > 1
            /\ sent[1] = GetRequest
            /\ recv # <<>>
            /\ recv[1] = HTTP_OK
            /\ sent[i].payload["notebook_id"] \in NotebookIdsOf(notebooks)
            /\ sent[i].payload["notebook_id"] = notebook_id

C10_Witness ==
    /\ pc = "done"
    /\ Len(StatelessPosts) = 2
    /\ Len(ConvPosts) = 3
    /\ args.notebook = "c"
    /\ Len(notebooks) = 2

\* C7 as stated: with a non-empty listing and no list-only flag, a run with an
\* ad-hoc query and no-demo issues exactly that query; every other run executes
\* the demo sequence before it ends.
C7_DemoUnlessSingleQuery ==
    (pc = "done" /\ QueryMode /\ notebooks # <<>>) =>
        IF CustomGiven /\ args.no_demo
        THEN QueriesOf(Posts) = CustomPart
        ELSE /\ Len(Posts) >= 4
             /\ QueriesOf(SubSeq(Posts, Len(Posts) - 3, Len(Posts))) = DemoPart

\* C7 amended: with a non-empty listing and no list-only flag, a run that ends
\* normally has issued the ad-hoc query (when a non-empty one was given)
\* followed by the demo sequence (unless no-demo was given), and nothing else.
C7_RunPlan ==
    (pc = "done" /\ QueryMode /\ notebooks # <<>>) =>
        /\ QueriesOf(Posts) =
             CustomPart \o (IF args.no_demo THEN << >> ELSE DemoPart)
        /\ Len(ConvPosts) = IF args.no_demo THEN 0 ELSE 3
        /\ ~args.no_demo => QueriesOf(ConvPosts) = DemoConvQueries

C7_Witness ==
    /\ pc = "done"
    /\ QueryMode
    /\ notebooks # <<>>
    /\ args.no_demo
    /\ ~CustomGiven
    /\ Posts = << >>
    /\ Last(log).ev = "ExampleComplete"

\* C8: with top_k and reranker_enabled unset the body has neither key; with
\* top_k=10 and reranker_enabled=False it has top_k 10 and reranker_enabled false.
C8_TopKRerankerExample ==
    pc = "qs_wait" =>
        LET p == Last(sent).payload
        IN  /\ (qs.top_k = None /\ qs.reranker_enabled) =>
                 (~HasKey(p, "top_k") /\ ~HasKey(p, "reranker_enabled"))
            /\ (qs.top_k = Some(10) /\ ~qs.reranker_enabled) =>
                 /\ HasKey(p, "top_k")
                 /\ p["top_k"] = 10
                 /\ HasKey(p, "reranker_enabled")
                 /\ p["reranker_enabled"] = FALSE

C8_Witness ==
    /\ pc = "qs_wait"
    /\ qs.top_k = Some(10)
    /\ ~qs.reranker_enabled
    /\ Last(sent).payload["top_k"] = 10
    /\ Len(StatelessPosts) = 2
    /\ ~HasKey(sent[2].payload, "model")

\* C9: a non-200 answer to query_stateless is reported, the function returns
\* None without raising and without a second request, and main goes on: a demo
\* run still executes the three-turn conversation.
C9_StatelessFailureContinues ==
    /\ (pc \in {"after_custom", "conv_call"} /\ Last(recv) # HTTP_OK) =>
         /\ qs_result = None
         /\ Last(log) = Event("Error", "", Last(recv))
         /\ Len(StatelessPosts) =
              IF site = "demo" /\ CustomGiven THEN 2 ELSE 1
         /\ Last(StatelessPosts).payload["query"] = qs.query
    /\ (pc \in {"after_custom", "conv_call"} /\ Last(recv) = HTTP_OK) =>
         qs_result # None
    /\ (pc = "done" /\ QueryMode /\ notebooks # <<>> /\ ~args.no_demo) =>
         /\ QueriesOf(ConvPosts) = DemoConvQueries
         /\ Len(StatelessPosts) = IF CustomGiven THEN 2 ELSE 1

C9_Witness ==
    /\ pc = "done"
    /\ ~args.no_demo
    /\ ~CustomGiven
    /\ Len(recv) = 5
    /\ recv[2] = 500
    /\ Len(StatelessPosts) = 1
    /\ Len(ConvPosts) = 3

====
